---- MODULE Spec2Model ----
(***************************************************************************)
(* The two synthetic water-consumption generators of the repository:       *)
(*   - synthetic-generator-multi.py: slot-grouped patterns (day x HH:MM),  *)
(*     one thread-pool task per meter, merged and sorted at the end;       *)
(*   - water-consumption-generator.py: cluster patterns, meters generated  *)
(*     one after the other, rows written in generation order.              *)
(*                                                                         *)
(* Numbers.  Consumption values are fixed-point, counted in thirds of a    *)
(* cent (300 units = 1.0), so that round(x, 2) is a real conversion: it    *)
(* goes to the nearest multiple of Cent and no tie arises.  Probabilities  *)
(* and factors are percentages (100 = 1.0).  variation_factor is counted   *)
(* in halves (2 = 1.0).  Timestamps of the thread-pool generator are       *)
(* counted in quarter hours since a Monday 00:00, those of the cluster     *)
(* generator in minutes since a Monday 00:00.                              *)
(*                                                                         *)
(* Randomness.  Every np.random call is one draw of a raw number from      *)
(* RawSet; Uniform and StdNormal give the value a raw number stands for    *)
(* in np.random.random() and in a standard normal variate.  np_random is   *)
(* the process-wide generator all threads share.  Unseeded (the programs   *)
(* never call np.random.seed) every draw can be any raw number; seeded,    *)
(* the draws are the successive outputs of a congruential generator.      *)
(***************************************************************************)
EXTENDS Integers, Sequences, FiniteSets, TLC

\* ---------------------------------------------------------------- bounds
MaxMeters == 2
MaxSlots == 2
MaxCells == 4

\* ------------------------------------------------------------- constants
Cent == 3
P_COMMON == 20
P_PEAK_RESAMPLE == 70
P_ZERO_PERIOD == 80
BASE_OBJECT_ID == 1

\* ----------------------------------------------------------- small helpers
Has(d, k) == k \in DOMAIN d

Max2(a, b) == IF a >= b THEN a ELSE b

Min2(a, b) == IF a <= b THEN a ELSE b

RECURSIVE SumSeq(_)
SumSeq(s) == IF s = <<>> THEN 0 ELSE Head(s) + SumSeq(Tail(s))

\* np.sqrt on the variances the pattern files hold
Sqrt(n) == CHOOSE r \in 0..n : r * r <= n /\ (r + 1) * (r + 1) > n

\* round(x, 2) of a value x >= 0
Round2Nearest(x) ==
    LET r == x % Cent
    IN  IF 2 * r < Cent THEN x - r ELSE x + (Cent - r)

Round2(x) == Round2Nearest(x)

\* ------------------------------------------------------- the random source
RawSet == {0, 1, 2}

\* np.random.random(): a number of [0, 1), in percent
Uniform(raw) == <<0, 75, 90>>[raw + 1]

\* a standard normal variate, in whole standard deviations
StdNormal(raw) == <<-2, 0, 1>>[raw + 1]

\* np.random.normal(loc, scale)
Normal(loc, scale, raw) == loc + scale * StdNormal(raw)

\* the generator's state transition and output function
Advance(x) == (5 * x + 3) % 16

RawOf(x) == x % 3

RECURSIVE AdvanceN(_, _)
AdvanceN(x, n) == IF n = 0 THEN x ELSE AdvanceN(Advance(x), n - 1)

\* ---------------------------------------------------------------- calendar
DayNames == <<"Monday", "Tuesday", "Wednesday", "Thursday", "Friday",
              "Saturday", "Sunday">>

Clock == <<"00:00", "00:15", "00:30", "00:45", "01:00", "01:15", "01:30",
           "01:45", "02:00", "02:15", "02:30", "02:45">>

\* timestamp.day_name()
DayName(ts) == DayNames[((ts \div 96) % 7) + 1]

\* timestamp.strftime('%H:%M')
StrfTime(ts) == IF (ts % 96) + 1 <= Len(Clock) THEN Clock[(ts % 96) + 1] ELSE "later"

\* timestamp.hour
HourOf(ts) == (ts % 96) \div 4

\* pd.date_range(start, end, freq='15min'): both ends included
DateRange(start_date, end_date) ==
    [k \in 1..(IF end_date >= start_date THEN end_date - start_date + 1 ELSE 0)
        |-> start_date + k - 1]

\* current_time.hour and current_time.weekday() of the cluster generator
HourOfMinute(m) == (m \div 60) % 24

WeekdayOfMinute(m) == (m \div 1440) % 7

\* ------------------------------------------------- slot-grouped pattern files
\* One slot object of the slot-grouped schema.
SlotPattern(means, weights, covs, common, z2nz, nz2z, mean, std, max) ==
    [gmm_means |-> means, gmm_weights |-> weights, gmm_covariances |-> covs,
     percentiles |-> <<common, max>>, common_values |-> common,
     transitions |-> [zero_to_non_zero |-> z2nz, non_zero_to_zero |-> nz2z],
     zero_probability |-> 100 - z2nz,
     basic_stats |-> [mean |-> mean, std |-> std, min |-> 0, max |-> max]]

DailySequence(peaks, zeros) == [peak_times |-> peaks, zero_periods |-> zeros]

\* A single mixture component at 10.0 with variance 0, bounds 0..20, always
\* leaving zero and never returning to it.
SteadySlot == SlotPattern(<<3000>>, <<100>>, <<0>>, 1500, 100, 0, 0, 0, 6000)

SteadyOne ==
    [Monday |-> ("00:00" :> SteadySlot @@ "daily_sequence" :> DailySequence({}, {}))]

Steady ==
    [Monday |-> ("00:00" :> SteadySlot @@ "00:15" :> SteadySlot
                 @@ "daily_sequence" :> DailySequence({}, {})),
     global_patterns |-> [overall_zero_probability |-> 0]]

\* Two components, the second clipped to the observed maximum; hour 0 is a
\* peak hour and hour 1 a zero period.
MixedSlot(z2nz, nz2z, weights, std) ==
    SlotPattern(<<600, 1200>>, weights, <<0, 4>>, 7, z2nz, nz2z, 450, std, 600)

MixedFile(z2nz, nz2z, weights) ==
    [Monday |-> ("00:45" :> MixedSlot(z2nz, nz2z, weights, 0)
                 @@ "01:00" :> MixedSlot(z2nz, nz2z, weights, 50)
                 @@ "01:45" :> MixedSlot(z2nz, nz2z, weights, 30)
                 @@ "02:00" :> MixedSlot(z2nz, nz2z, weights, 50)
                 @@ "daily_sequence" :> DailySequence({0}, {1}))]

Mixed == MixedFile(50, 50, <<50, 50>>)

\* zero_to_non_zero = 0.0 in every slot
Dry == MixedFile(0, 50, <<50, 50>>)

\* mixture weights that sum to 0.8
Skewed == MixedFile(50, 50, <<50, 30>>)

\* a dict without one of its keys
Without(d, k) == [x \in DOMAIN d \ {k} |-> d[x]]

\* One slot, at Monday 00:45, of a day with no peak hour and no zero period.
OneSlotFile(slot) ==
    [Monday |-> ("00:45" :> slot @@ "daily_sequence" :> DailySequence({}, {}))]

\* a slot that always leaves zero and whose mixture has no component
HollowSlot == SlotPattern(<<>>, <<>>, <<>>, 7, 100, 0, 0, 0, 600)

\* the mixture is empty
Hollow == OneSlotFile(HollowSlot)

\* the mixture is absent: the slot has no gmm_means
Mixtureless == OneSlotFile(Without(HollowSlot, "gmm_means"))

\* the slot defines no transitions
Bare == OneSlotFile(Without(MixedSlot(50, 50, <<50, 50>>, 0), "transitions"))

\* the slot defines no transition for the state zero
HalfBare ==
    OneSlotFile([MixedSlot(50, 50, <<50, 50>>, 0) EXCEPT
                    !.transitions = [non_zero_to_zero |-> 50]])

\* a slot whose means and common value are 0.0 and whose basic_stats.mean
\* is 1.5
Tilted == OneSlotFile(SlotPattern(<<0>>, <<100>>, <<0>>, 0, 50, 50, 450, 0, 600))

\* Two slots of the peak hour 0, with one mixture component at 2.0 that is
\* also the common value.
Peaks ==
    [Monday |-> ("00:30" :> SlotPattern(<<600>>, <<100>>, <<0>>, 600, 50, 50, 0, 0, 600)
                 @@ "00:45" :> SlotPattern(<<600>>, <<100>>, <<0>>, 600, 50, 50, 0, 0, 600)
                 @@ "daily_sequence" :> DailySequence({0}, {}))]

SlotFiles ==
    [Peaks |-> Peaks, Steady |-> Steady, SteadyOne |-> SteadyOne, Mixed |-> Mixed, Dry |-> Dry,
     Skewed |-> Skewed, Hollow |-> Hollow, Mixtureless |-> Mixtureless,
     Bare |-> Bare, HalfBare |-> HalfBare, Tilted |-> Tilted]

\* The runs of the thread-pool generator that are explored: pattern file,
\* variation_factor (in halves) and start_date.
SlotRuns ==
    { <<"Steady", 0, 0>>, <<"SteadyOne", 2, 0>>, <<"Mixed", 0, 3>>,
      <<"Mixed", 0, 7>>, <<"Dry", 0, 3>>, <<"Skewed", 0, 3>>,
      <<"Hollow", 0, 3>>, <<"Mixtureless", 0, 3>>, <<"Bare", 0, 3>>,
      <<"HalfBare", 0, 3>>, <<"Tilted", 2, 3>>, <<"Peaks", 0, 2>> }

\* (num_meters, number of timestamps) of a request: at most MaxCells readings
Shapes ==
    { sh \in (1..MaxMeters) \X (1..MaxSlots) : sh[1] * sh[2] <= MaxCells }

SlotRequests ==
    { [prog |-> "slot", file |-> r[1], variation_factor |-> r[2],
       start_date |-> r[3], end_date |-> r[3] + sh[2] - 1, num_meters |-> sh[1],
       base_object_id |-> BASE_OBJECT_ID] :
         r \in SlotRuns, sh \in Shapes }

\* ------------------------------------------------------ cluster pattern files
Labels == <<"0", "1", "2">>

\* str(hour), str(day_of_week), str(current_state)
Str(n) == <<"0", "1", "2", "3", "4", "5", "6", "7", "8", "9", "10", "11", "12",
            "13", "14", "15", "16", "17", "18", "19", "20", "21", "22", "23">>[n + 1]

\* int(s) of a state or cluster label
IntOf(s) == CHOOSE n \in 0..23 : Str(n) = s

Even == ("0" :> 50 @@ "1" :> 50)

FullCluster(weights, stay) ==
    [gmm |-> [means |-> <<4, 4>>, weights |-> weights, covars |-> <<0, 0>>],
     temporal_patterns |->
        [hourly_patterns |-> ("0" :> [mean |-> 150]),
         weekly_patterns |-> ("0" :> [mean |-> 100])],
     transitions |-> ("0" :> ("0" :> stay @@ "1" :> 100 - stay) @@ "1" :> Even)]

\* a cluster with no mixture, no temporal factors and no transitions
SparseCluster == [samples |-> 0]

Clustered ==
    [cluster_probabilities |-> Even,
     patterns |-> ("0" :> FullCluster(<<50, 50>>, 50) @@ "1" :> SparseCluster)]

\* state "0" goes to "1" with probability 0
DryClusters ==
    [cluster_probabilities |-> ("0" :> 100),
     patterns |-> ("0" :> FullCluster(<<50, 50>>, 100))]

\* mixture weights that sum to 0.8
SkewedClusters ==
    [cluster_probabilities |-> ("0" :> 100),
     patterns |-> ("0" :> FullCluster(<<50, 30>>, 50))]

\* a cluster that is assigned but has no pattern
Orphan ==
    [cluster_probabilities |-> ("0" :> 50 @@ "2" :> 50),
     patterns |-> ("0" :> FullCluster(<<50, 50>>, 50))]

\* a cluster whose mixture has no component
HollowCluster ==
    [FullCluster(<<>>, 50) EXCEPT
        !.gmm = [means |-> <<>>, weights |-> <<>>, covars |-> <<>>]]

\* every cluster has an empty mixture or none
HollowClusters ==
    [cluster_probabilities |-> Even,
     patterns |-> ("0" :> HollowCluster @@ "1" :> SparseCluster)]

\* a file without the top-level key cluster_probabilities
Headless == Without(Clustered, "cluster_probabilities")

\* a file without the top-level key patterns
Patternless == Without(Clustered, "patterns")

ClusterFiles ==
    [Clustered |-> Clustered, DryClusters |-> DryClusters,
     SkewedClusters |-> SkewedClusters, Orphan |-> Orphan,
     HollowClusters |-> HollowClusters, Headless |-> Headless,
     Patternless |-> Patternless]

\* The runs of the cluster generator that are explored: pattern file and
\* start_date (minutes); the interval is the default 15 minutes.
ClusterRuns ==
    { <<"Clustered", 45>>, <<"DryClusters", 45>>, <<"SkewedClusters", 45>>,
      <<"Orphan", 45>>, <<"HollowClusters", 45>>, <<"Headless", 45>>,
      <<"Patternless", 45>> }

ClusterRequests ==
    { [prog |-> "cluster", file |-> r[1], start_date |-> r[2],
       num_meters |-> sh[1], num_periods |-> sh[2], time_interval |-> 15] :
         r \in ClusterRuns, sh \in Shapes }

\* what json.load returns for the pattern file of a request
FileContent(req) ==
    IF req.prog = "slot" THEN SlotFiles[req.file] ELSE ClusterFiles[req.file]

\* ------------------------------------------------------------------- state
VARIABLES
    request,     \* the arguments of the run
    disk,        \* the pattern file, the output file, and the output file a
                 \* previous run left, once it is set aside
    patterns,    \* patterns / patterns_data of generate_synthetic_data
    mainpc,      \* position of generate_synthetic_data
    task,        \* per meter: the state of its generate_meter_data call
    handled,     \* the futures as_completed has yielded / the meters looped over
    all_data,    \* all_data of generate_synthetic_data
    np_random,   \* the process-wide random generator
    run          \* 1 in the first run of the program, 2 in a second run

vars == <<request, disk, patterns, mainpc, task, handled, all_data, np_random, run>>

Unloaded == [unloaded |-> TRUE]

\* an output path with no file, and with the file to_csv wrote
NoFile == [exists |-> FALSE, rows |-> <<>>]

CsvFile(rows) == [exists |-> TRUE, rows |-> rows]

\* range(num_meters) / range(1, num_meters + 1)
Meters ==
    IF request.prog = "slot" THEN 0..(request.num_meters - 1)
    ELSE 1..request.num_meters

\* ---------------------------------------------------------------- np.random
\* The raw numbers the k-th draw of the current step can deliver.
Draws(k) ==
    IF np_random.seeded THEN {RawOf(AdvanceN(np_random.x, k - 1))} ELSE RawSet

DrawSeqs(k0, n) ==
    { zs \in [1..n -> RawSet] : \A j \in 1..n : zs[j] \in Draws(k0 + j) }

\* the generator after `used` draws
Drawn(used) ==
    IF np_random.seeded
    THEN [np_random EXCEPT !.x = AdvanceN(@, used)]
    ELSE np_random

\* np.random.choice(n, p=p): the reasons it raises ValueError
ChoiceRaises(n, p) ==
    \/ n = 0
    \/ Len(p) # n
    \/ \E i \in 1..Len(p) : p[i] < 0
    \/ SumSeq(p) # 100

\* np.random.choice(n, p=p) for the uniform number u: the first index whose
\* cumulative weight exceeds u (1-based)
ChoiceIndex(p, u) ==
    CHOOSE i \in 1..Len(p) :
        /\ u < SumSeq(SubSeq(p, 1, i))
        /\ \A j \in 1..(i - 1) : ~(u < SumSeq(SubSeq(p, 1, j)))

\* --------------------------------------- thread-pool generator: one meter
EmptyDict == <<>>

\* d.get(k, {})
GetOrEmpty(d, k) == IF Has(d, k) THEN d[k] ELSE EmptyDict

\* an outcome of a piece of code that draws random numbers: whether it
\* raised, the value it returned, the number of draws of the step made so
\* far, and (of the value sampler) the occupancy it decided
Raised(cause, used) ==
    [raised |-> TRUE, cause |-> cause, value |-> 0, used |-> used, zero |-> FALSE]

Returned(value, used, zero) ==
    [raised |-> FALSE, cause |-> "none", value |-> value, used |-> used, zero |-> zero]

\* the decision with the two cases of lines 18-27 confused: the rule of the
\* non-zero case applied to a zero previous value
ShouldBeZeroSwapped(is_currently_zero, random_val, p) == random_val < p

\* the decision with the rule of the zero case applied to both cases
ShouldBeZeroAlike(is_currently_zero, random_val, p) == ~(random_val < p)

\* lines 18-27: the occupancy decision of the value sampler
ShouldBeZero(is_currently_zero, random_val, p) ==
    IF is_currently_zero THEN ~(random_val < p) ELSE random_val < p

\* lines 40-41: clip to the observed bounds
ClipToBounds(value, stats) == Max2(stats.min, Min2(stats.max, value))

\* the return of line 47 without its max(0, ...)
FloorForgotten(value) == value

\* line 47
FloorAtZero(value) == Max2(0, value)

\* lines 33-47: the non-zero branch of the value sampler, whose draws are
\* the (k0+1)-th to (k0+3)-th of the step
MixtureValue(pattern, k0) ==
    IF ChoiceRaises(Len(pattern.gmm_means), pattern.gmm_weights)
    THEN {Raised("ValueError", k0)}
    ELSE { LET component == ChoiceIndex(pattern.gmm_weights, Uniform(zs[1]))
               value == Normal(pattern.gmm_means[component],
                               Sqrt(pattern.gmm_covariances[component]), zs[2])
               clipped == ClipToBounds(value, pattern.basic_stats)
               chosen == IF Uniform(zs[3]) < P_COMMON
                         THEN pattern.common_values ELSE clipped
           IN  Returned(FloorAtZero(chosen), k0 + 3, FALSE) :
             zs \in DrawSeqs(k0, 3) }

\* generate_consumption_value(pattern, previous_value), the first draw of
\* which is the (k0+1)-th of the step
generate_consumption_value(pattern, previous_value, k0) ==
    UNION {
        LET random_val == Uniform(r)
            key == IF previous_value = 0
                   THEN "zero_to_non_zero" ELSE "non_zero_to_zero"
        IN  IF ~Has(pattern.transitions, key)
            THEN {Raised("KeyError", k0 + 1)}
            ELSE IF ShouldBeZero(previous_value = 0, random_val,
                                 pattern.transitions[key])
                 THEN {Returned(0, k0 + 1, TRUE)}
                 ELSE MixtureValue(pattern, k0 + 1) :
        r \in Draws(k0 + 1) }

\* the perturbation with a fixed scale in place of variation_factor
PerturbedFixedScale(m, variation_factor, raw) ==
    (m * (2 + Normal(0, 1, raw))) \div 2

\* m * (1 + np.random.normal(0, variation_factor))
Perturbed(m, variation_factor, raw) ==
    (m * (2 + Normal(0, variation_factor, raw))) \div 2

\* the keys of a slot object that lines 71-88 read, in the order they are
\* read, each with the number of draws made before it is read
RequiredKeys(n) ==
    << <<"gmm_means", 0>>, <<"gmm_weights", n>>, <<"gmm_covariances", n>>,
       <<"percentiles", n>>, <<"common_values", n>>, <<"transitions", n + 1>>,
       <<"zero_probability", n + 1>>, <<"basic_stats", n + 1>> >>

MissingKeys(tp) ==
    LET n == IF Has(tp, "gmm_means") THEN Len(tp.gmm_means) ELSE 0
    IN  { i \in 1..Len(RequiredKeys(n)) : ~Has(tp, RequiredKeys(n)[i][1]) }

\* the draws made before the KeyError of a slot object with a missing key
DrawsBeforeKeyError(tp) ==
    LET n == IF Has(tp, "gmm_means") THEN Len(tp.gmm_means) ELSE 0
        first == CHOOSE i \in MissingKeys(tp) : \A j \in MissingKeys(tp) : i <= j
    IN  RequiredKeys(n)[first][2]

\* lines 71-88: the varied copy of one slot object, for the draws zs
VariedPattern(time_pattern, variation_factor, zs) ==
    LET n == Len(time_pattern.gmm_means)
    IN  [gmm_means |-> [i \in 1..n |->
                          Perturbed(time_pattern.gmm_means[i], variation_factor, zs[i])],
         gmm_weights |-> time_pattern.gmm_weights,
         gmm_covariances |-> time_pattern.gmm_covariances,
         percentiles |-> time_pattern.percentiles,
         common_values |-> Perturbed(time_pattern.common_values, variation_factor,
                                     zs[n + 1]),
         transitions |-> time_pattern.transitions,
         zero_probability |-> time_pattern.zero_probability,
         basic_stats |->
            [mean |-> Perturbed(time_pattern.basic_stats.mean, variation_factor,
                                zs[n + 2]),
             std |-> time_pattern.basic_stats.std,
             min |-> time_pattern.basic_stats.min,
             max |-> time_pattern.basic_stats.max]]

\* the day keys of a pattern file that line 61 iterates over, in order
DayKeys(p) == SelectSeq(DayNames, LAMBDA d : Has(p, d))

\* the (day, time) keys of the slot objects, in iteration order
RECURSIVE SlotKeysFrom(_, _)
SlotKeysFrom(p, days) ==
    IF days = <<>> THEN <<>>
    ELSE LET d == Head(days)
             times == SelectSeq(Clock, LAMBDA t : Has(p[d], t))
         IN  [i \in 1..Len(times) |-> <<d, times[i]>>] \o SlotKeysFrom(p, Tail(days))

SlotKeys(p) == SlotKeysFrom(p, DayKeys(p))

\* lines 64-68: meter_patterns with every day's daily_sequence copied
Skeleton(p) ==
    [d \in {DayKeys(p)[i] : i \in 1..Len(DayKeys(p))} |->
        IF Has(p[d], "daily_sequence")
        THEN ("daily_sequence" :> p[d]["daily_sequence"]) ELSE EmptyDict]

\* lines 60-89 for the slot objects `keys`: every way the draws can go from
\* the partial results acc
RECURSIVE VaryFrom(_, _, _, _)
VaryFrom(p, variation_factor, keys, acc) ==
    IF keys = <<>> THEN acc
    ELSE LET day == Head(keys)[1]
             time == Head(keys)[2]
             tp == p[day][time]
             Extend(o) ==
                IF o.raised THEN {o}
                ELSE IF MissingKeys(tp) # {}
                THEN {[raised |-> TRUE, mp |-> o.mp,
                       used |-> o.used + DrawsBeforeKeyError(tp)]}
                ELSE { [raised |-> FALSE,
                        mp |-> [o.mp EXCEPT ![day] =
                                  (time :> VariedPattern(tp, variation_factor, zs)) @@ @],
                        used |-> o.used + Len(tp.gmm_means) + 2] :
                       zs \in DrawSeqs(o.used, Len(tp.gmm_means) + 2) }
         IN  VaryFrom(p, variation_factor, Tail(keys), UNION {Extend(o) : o \in acc})

\* lines 59-89: the outcomes of building meter_patterns
VaryOutcomes(p, variation_factor) ==
    VaryFrom(p, variation_factor, SlotKeys(p),
             {[raised |-> FALSE, mp |-> Skeleton(p), used |-> 0]})

\* line 118: the scale of the jitter, basic_stats.std * 0.1
JitterScale(std) == std \div 10

\* line 119
Jittered(consumption, variation) == Max2(0, consumption + variation)

\* the outcome o of the sampling of one pass, with what the pass did to get
\* it: the number of calls of the value sampler, whether the first sample
\* was 0, and whether every call was given the same previous value
Sampled(o, calls, first, starts) ==
    [o |-> o, calls |-> calls, first_zero |-> calls >= 1 /\ first = 0,
     same_start |-> \A j \in 1..Len(starts) : starts[j] = starts[1]]

\* what one pass of the loop body adds to the walk's record: the calls of
\* the value sampler and the occupancy the last call decided
Pass(c) ==
    [calls |-> c.calls,
     occupancy |-> IF c.calls = 0 THEN "none"
                   ELSE IF c.o.zero THEN "zero" ELSE "non_zero",
     first_zero |-> c.first_zero,
     same_start |-> c.same_start]

\* a resample that does not look at the first sample
ResampleWhatever(consumption) == TRUE

\* line 109: consumption == 0, the condition under which a draw decides on
\* a resample
ResampleConsidered(consumption) == consumption = 0

\* line 110: the previous value the resample is given
ResampleStart(previous_value, consumption) == previous_value

\* lines 106-110: a peak hour
PeakHour(time_pattern, previous_value) ==
    UNION {
        IF o1.raised \/ ~ResampleConsidered(o1.value)
        THEN {Sampled(o1, 1, o1.value, <<previous_value>>)}
        ELSE UNION {
                IF Uniform(r) < P_PEAK_RESAMPLE
                THEN { Sampled(o2, 2, o1.value,
                               <<previous_value, ResampleStart(previous_value, o1.value)>>) :
                       o2 \in generate_consumption_value(
                                 time_pattern, ResampleStart(previous_value, o1.value),
                                 o1.used + 1) }
                ELSE {Sampled([o1 EXCEPT !.used = @ + 1], 1, o1.value,
                              <<previous_value>>)} :
                r \in Draws(o1.used + 1) } :
        o1 \in generate_consumption_value(time_pattern, previous_value, 0) }

\* lines 111-112: a zero period
ZeroHour(time_pattern, previous_value) ==
    UNION {
        IF Uniform(r) < P_ZERO_PERIOD
        THEN {Sampled(Returned(0, 1, FALSE), 0, 0, <<>>)}
        ELSE { Sampled(o1, 1, o1.value, <<previous_value>>) :
               o1 \in generate_consumption_value(time_pattern, previous_value, 1) } :
        r \in Draws(1) }

\* lines 113-114
OtherHour(time_pattern, previous_value) ==
    { Sampled(o1, 1, o1.value, <<previous_value>>) :
      o1 \in generate_consumption_value(time_pattern, previous_value, 0) }

\* lines 116-119: the jitter of a positive consumption
WithJitter(c, time_pattern) ==
    IF c.o.raised \/ ~(c.o.value > 0)
    THEN {c}
    ELSE { [c EXCEPT !.o.value =
                Jittered(@, Normal(0, JitterScale(time_pattern.basic_stats.std), r)),
              !.o.used = @ + 1] :
           r \in Draws(c.o.used + 1) }

\* line 121 and its absence from the else branch of line 122
NextPreviousValue(has_pattern, previous_value, consumption) ==
    IF has_pattern THEN consumption ELSE previous_value

\* lines 92-129: the outcomes of the loop body for timestamp ts
LoopBody(meter_patterns, ts, previous_value) ==
    LET day_patterns == GetOrEmpty(meter_patterns, DayName(ts))
        time_pattern == GetOrEmpty(day_patterns, StrfTime(ts))
        hour == HourOf(ts)
    IN  IF DOMAIN time_pattern # {} /\ Has(day_patterns, "daily_sequence")
        THEN LET is_peak_hour == hour \in day_patterns["daily_sequence"].peak_times
                 is_zero_hour == hour \in day_patterns["daily_sequence"].zero_periods
                 sampled == IF is_peak_hour THEN PeakHour(time_pattern, previous_value)
                            ELSE IF is_zero_hour
                                 THEN ZeroHour(time_pattern, previous_value)
                                 ELSE OtherHour(time_pattern, previous_value)
             IN  { [raised |-> c.o.raised, cause |-> c.o.cause,
                    consumption |-> c.o.value,
                    previous_value |-> NextPreviousValue(TRUE, previous_value, c.o.value),
                    used |-> c.o.used, pass |-> Pass(c)] :
                   c \in UNION {WithJitter(c0, time_pattern) : c0 \in sampled} }
        ELSE {[raised |-> FALSE, cause |-> "none", consumption |-> 0,
               previous_value |-> NextPreviousValue(FALSE, previous_value, 0),
               used |-> 0, pass |-> Pass(Sampled(Returned(0, 0, FALSE), 0, 0, <<>>))]}

\* lines 125-129: the row appended for a timestamp
Reading(object_id, ts, consumption) ==
    [OBJECTID |-> object_id, TimeStamp |-> ts, Consumption |-> Round2(consumption)]

\* an append that leaves out the readings of 0
AppendedUnlessZero(synthetic_data, reading) ==
    IF reading.Consumption = 0 THEN synthetic_data ELSE Append(synthetic_data, reading)

\* lines 125-129: synthetic_data.append(...)
Appended(synthetic_data, reading) == Append(synthetic_data, reading)

\* the state of a generate_meter_data call that has not started; pos is the
\* number of timestamps of date_range the loop has consumed
NewTask ==
    [pc |-> "new", meter_patterns |-> Unloaded, previous_value |-> 0, pos |-> 0,
     synthetic_data |-> <<>>, walk |-> <<>>, cause |-> "none"]

date_range == DateRange(request.start_date, request.end_date)

\* lines 142-143
Load ==
    /\ request.prog = "slot"
    /\ mainpc = "load"
    /\ patterns' = disk.patterns_file
    /\ mainpc' = "submit"
    /\ UNCHANGED <<request, disk, task, handled, all_data, np_random, run>>

\* lines 150-160: one task per meter is handed to the pool
Submit ==
    /\ request.prog = "slot"
    /\ mainpc = "submit"
    /\ task' = [i \in Meters |-> [task[i] EXCEPT !.pc = "vary"]]
    /\ mainpc' = "as_completed"
    /\ UNCHANGED <<request, disk, patterns, handled, all_data, np_random, run>>

\* the shared dict when meter_patterns is an alias of it instead of a fresh
\* dict: the varied slot objects are stored into the shared days
SharedAliased(shared, mp) ==
    [d \in DOMAIN shared |-> IF Has(mp, d) THEN mp[d] ELSE shared[d]]

\* the shared patterns dict after a task has built its meter_patterns: the
\* task writes into a fresh dict (line 60) and fresh slot objects (line 71)
SharedAfterVary(shared, mp) == shared

\* lines 55-89 of the task of meter i
Vary(i) ==
    /\ request.prog = "slot"
    /\ task[i].pc = "vary"
    /\ \E o \in VaryOutcomes(patterns, request.variation_factor) :
          /\ task' = [task EXCEPT ![i] =
                        IF o.raised
                        THEN [@ EXCEPT !.pc = "raised", !.cause = "KeyError"]
                        ELSE [@ EXCEPT !.pc = "loop", !.meter_patterns = o.mp]]
          /\ patterns' = IF o.raised THEN patterns ELSE SharedAfterVary(patterns, o.mp)
          /\ np_random' = Drawn(o.used)
    /\ UNCHANGED <<request, disk, mainpc, handled, all_data, run>>

\* one pass of the loop of lines 91-129 of the task of meter i
Step(i) ==
    /\ request.prog = "slot"
    /\ task[i].pc = "loop"
    /\ task[i].pos < Len(date_range)
    /\ LET ts == date_range[task[i].pos + 1]
       IN  \E o \in LoopBody(task[i].meter_patterns, ts, task[i].previous_value) :
              /\ task' = [task EXCEPT ![i] =
                    IF o.raised
                    THEN [@ EXCEPT !.pc = "raised", !.cause = o.cause]
                    ELSE [@ EXCEPT
                            !.pos = @ + 1,
                            !.previous_value = o.previous_value,
                            !.synthetic_data =
                               Appended(@, Reading(request.base_object_id + i, ts,
                                                   o.consumption)),
                            !.walk = Append(@, o.pass)]]
              /\ np_random' = Drawn(o.used)
    /\ UNCHANGED <<request, disk, patterns, mainpc, handled, all_data, run>>

\* line 131: the task of meter i returns its DataFrame
Return(i) ==
    /\ request.prog = "slot"
    /\ task[i].pc = "loop"
    /\ task[i].pos = Len(date_range)
    /\ task' = [task EXCEPT ![i] = [@ EXCEPT !.pc = "returned",
                                              !.meter_patterns = Unloaded]]
    /\ UNCHANGED <<request, disk, patterns, mainpc, handled, all_data, np_random, run>>

\* ------------------------------------- thread-pool generator: main thread
\* a collection that keeps the rows of a task whatever its end
CollectedAlways(frames, t) == Append(frames, t.synthetic_data)

\* lines 166-173: future.result() of a finished task t: its DataFrame joins
\* all_data, or its exception is printed
Collected(frames, t) ==
    IF t.pc = "returned" THEN Append(frames, t.synthetic_data) ELSE frames

\* lines 164-173: as_completed yields the finished future of meter i
Collect(i) ==
    /\ request.prog = "slot"
    /\ mainpc = "as_completed"
    /\ i \in Meters \ handled
    /\ task[i].pc \in {"returned", "raised"}
    /\ handled' = handled \cup {i}
    /\ all_data' = Collected(all_data, task[i])
    /\ UNCHANGED <<request, disk, patterns, mainpc, task, np_random, run>>

\* a concatenation that keeps the frame collected last
ConcatLastOnly(frames) == IF frames = <<>> THEN <<>> ELSE frames[Len(frames)]

\* pd.concat(all_data, ignore_index=True)
RECURSIVE Concat(_)
Concat(frames) == IF frames = <<>> THEN <<>> ELSE Head(frames) \o Concat(Tail(frames))

\* the order of sort_values(['TimeStamp', 'OBJECTID'])
ByTimeStampThenObject(a, b) ==
    \/ a.TimeStamp < b.TimeStamp
    \/ a.TimeStamp = b.TimeStamp /\ a.OBJECTID < b.OBJECTID

\* row r put into the sorted rows, behind the rows that are not after it
RECURSIVE Inserted(_, _)
Inserted(r, rows) ==
    IF rows = <<>> THEN <<r>>
    ELSE IF ByTimeStampThenObject(r, Head(rows))
         THEN <<r>> \o rows
         ELSE <<Head(rows)>> \o Inserted(r, Tail(rows))

RECURSIVE SortedRows(_)
SortedRows(rows) ==
    IF rows = <<>> THEN <<>>
    ELSE Inserted(rows[Len(rows)], SortedRows(SubSeq(rows, 1, Len(rows) - 1)))

\* line 179
SortValues(rows) == SortedRows(rows)

\* a concatenation that accepts an empty list
ConcatNeverRaises(frames) == FALSE

\* line 176: pd.concat raises ValueError when all_data holds no frame
ConcatRaises(frames) == frames = <<>>

\* lines 175-182, and lines 224-226 when pd.concat raises on an empty list:
\* the merged, sorted rows are written, or the program exits with status 1
Merge ==
    /\ request.prog = "slot"
    /\ mainpc = "as_completed"
    /\ handled = Meters
    /\ IF ConcatRaises(all_data)
       THEN /\ mainpc' = "exit1"
            /\ disk' = disk
       ELSE /\ mainpc' = "done"
            /\ disk' = [disk EXCEPT !.output = CsvFile(SortValues(Concat(all_data)))]
    /\ UNCHANGED <<request, patterns, task, handled, all_data, np_random, run>>

\* ------------------------------------------------------- cluster generator
None == [none |-> TRUE]

\* d.get(k): None when the key is absent
GetOrNone(d, k) == IF Has(d, k) THEN d[k] ELSE None

\* list(d.keys()) and list(d.values()) of a dict keyed by labels
DictKeys(d) == SelectSeq(Labels, LAMBDA l : Has(d, l))

DictValues(d) == [i \in 1..Len(DictKeys(d)) |-> d[DictKeys(d)[i]]]

\* lines 41 and 96: the default transitions
DefaultProbs == Even

DefaultTransitions == ("0" :> Even)

\* assign_cluster(cluster_probabilities), drawing the (k0+1)-th number
assign_cluster(cluster_probabilities, k0) ==
    IF ChoiceRaises(Len(DictKeys(cluster_probabilities)),
                    DictValues(cluster_probabilities))
    THEN {Raised("ValueError", k0)}
    ELSE { Returned(DictKeys(cluster_probabilities)[
                      ChoiceIndex(DictValues(cluster_probabilities), Uniform(r))],
                    k0 + 1, FALSE) :
           r \in Draws(k0 + 1) }

\* generate_consumption_state(current_state, transitions)
generate_consumption_state(current_state, transitions, k0) ==
    LET probs == IF Has(transitions, Str(current_state))
                 THEN transitions[Str(current_state)] ELSE DefaultProbs
        states == [i \in 1..Len(DictKeys(probs)) |-> IntOf(DictKeys(probs)[i])]
        probabilities == DictValues(probs)
    IN  IF ChoiceRaises(Len(states), probabilities)
        THEN {Raised("ValueError", k0)}
        ELSE { Returned(states[ChoiceIndex(probabilities, Uniform(r))], k0 + 1, FALSE) :
               r \in Draws(k0 + 1) }

\* d.get(str(n), {}).get('mean', 1.0)
FactorOf(d, n) ==
    IF Has(d, Str(n)) /\ Has(d[Str(n)], "mean") THEN d[Str(n)].mean ELSE 100

\* line 71
Adjusted(base_value, hourly_factor, weekly_factor, variation) ==
    Max2(0, (base_value * (hourly_factor + weekly_factor)) \div 200 + variation)

\* lines 74-79: the except clause of the cluster value sampler
Caught(cause, used) == [Returned(0, used, FALSE) EXCEPT !.cause = cause]

\* WaterConsumptionGenerator.generate_consumption_value
ClusterConsumptionValue(gmm_params, temporal_patterns, hour, day_of_week, k0) ==
    IF gmm_params = None
    THEN {Returned(0, k0, FALSE)}
    ELSE IF ~Has(gmm_params, "means") \/ ~Has(gmm_params, "weights")
    THEN {Caught("KeyError", k0)}
    ELSE IF ChoiceRaises(Len(gmm_params.means), gmm_params.weights)
    THEN {Caught("ValueError", k0)}
    ELSE IF ~Has(gmm_params, "covars")
    THEN {Caught("KeyError", k0 + 1)}
    ELSE { LET component == ChoiceIndex(gmm_params.weights, Uniform(zs[1]))
               base_value == Normal(gmm_params.means[component],
                                    Sqrt(gmm_params.covars[component]), zs[2])
               hourly_patterns == GetOrEmpty(temporal_patterns, "hourly_patterns")
               weekly_patterns == GetOrEmpty(temporal_patterns, "weekly_patterns")
               variation == Normal(0, 10 * Cent, zs[3])
           IN  Returned(Round2(Adjusted(base_value, FactorOf(hourly_patterns, hour),
                                        FactorOf(weekly_patterns, day_of_week),
                                        variation)),
                        k0 + 3, FALSE) :
             zs \in DrawSeqs(k0, 3) }

\* lines 110-114: data.append(...)
ClusterAppended(data, reading) == Append(data, reading)

\* the state of a meter whose turn has not come; pos is the number of
\* periods the loop of line 89 has consumed
NewMeter ==
    [pc |-> "new", cluster |-> "none", current_state |-> 0, pos |-> 0, data |-> <<>>,
     walk |-> <<>>, cause |-> "none"]

\* the meter the loop of line 137 is at
NextMeter == CHOOSE m \in Meters \ handled : \A n \in Meters \ handled : m <= n

\* lines 130-131
ClusterLoad ==
    /\ request.prog = "cluster"
    /\ mainpc = "load"
    /\ patterns' = disk.patterns_file
    /\ mainpc' = "meters"
    /\ UNCHANGED <<request, disk, task, handled, all_data, np_random, run>>

\* lines 160-162: the failure of meter m is logged and the loop goes on
MeterFailed(m, cause) ==
    /\ task' = [task EXCEPT ![m] = [@ EXCEPT !.pc = "raised", !.cause = cause]]
    /\ handled' = handled \cup {m}

\* lines 140 and 84-86: the cluster of meter m is drawn and its pattern
\* looked up
ClusterAssign(m) ==
    /\ request.prog = "cluster"
    /\ mainpc = "meters"
    /\ handled # Meters
    /\ m = NextMeter
    /\ task[m].pc = "new"
    /\ IF ~Has(patterns, "cluster_probabilities")
       THEN MeterFailed(m, "KeyError") /\ np_random' = np_random
       ELSE \E o \in assign_cluster(patterns.cluster_probabilities, 0) :
              /\ np_random' = Drawn(o.used)
              /\ IF o.raised
                 THEN MeterFailed(m, o.cause)
                 ELSE IF ~Has(patterns, "patterns") \/ ~Has(patterns.patterns, o.value)
                 THEN MeterFailed(m, "KeyError")
                 ELSE /\ task' = [task EXCEPT ![m] =
                                    [@ EXCEPT !.pc = "loop", !.cluster = o.value]]
                      /\ handled' = handled
    /\ UNCHANGED <<request, disk, patterns, mainpc, all_data, run>>

\* lines 89-116: the outcomes of one pass of the loop
ClusterLoopBody(cluster_patterns, current_state, current_time) ==
    LET hour == HourOfMinute(current_time)
        day_of_week == WeekdayOfMinute(current_time)
        transitions == IF Has(cluster_patterns, "transitions")
                       THEN cluster_patterns.transitions ELSE DefaultTransitions
    IN  UNION {
          IF s.raised
          THEN {[raised |-> TRUE, cause |-> s.cause, current_state |-> current_state,
                 consumption |-> 0, used |-> s.used, logged |-> "none"]}
          ELSE IF s.value = 0
          THEN {[raised |-> FALSE, cause |-> "none", current_state |-> 0,
                 consumption |-> 0, used |-> s.used, logged |-> "none"]}
          ELSE { [raised |-> FALSE, cause |-> "none", current_state |-> s.value,
                  consumption |-> c.value, used |-> c.used, logged |-> c.cause] :
                 c \in ClusterConsumptionValue(
                         GetOrNone(cluster_patterns, "gmm"),
                         GetOrEmpty(cluster_patterns, "temporal_patterns"),
                         hour, day_of_week, s.used) } :
          s \in generate_consumption_state(current_state, transitions, 0) }

\* lines 110-114
ClusterReading(current_time, consumption, cluster) ==
    [TimeStamp |-> current_time, Consumption |-> consumption, Cluster |-> IntOf(cluster)]

\* one pass of the loop of lines 89-116 for meter m
ClusterStep(m) ==
    /\ request.prog = "cluster"
    /\ mainpc = "meters"
    /\ task[m].pc = "loop"
    /\ task[m].pos < request.num_periods
    /\ LET current_time == request.start_date + task[m].pos * request.time_interval
       IN  \E o \in ClusterLoopBody(patterns.patterns[task[m].cluster],
                                    task[m].current_state, current_time) :
              /\ np_random' = Drawn(o.used)
              /\ IF o.raised
                 THEN MeterFailed(m, o.cause)
                 ELSE /\ task' = [task EXCEPT ![m] =
                            [@ EXCEPT
                               !.pos = @ + 1,
                               !.current_state = o.current_state,
                               !.data = ClusterAppended(@, ClusterReading(current_time,
                                                    o.consumption, task[m].cluster)),
                               !.walk = Append(@, [state |-> o.current_state,
                                                   logged |-> o.logged])]]
                      /\ handled' = handled
    /\ UNCHANGED <<request, disk, patterns, mainpc, all_data, run>>

\* lines 118 and 151-155: the rows of meter m get their MeterID and join
\* all_data
ClusterExtend(m) ==
    /\ request.prog = "cluster"
    /\ mainpc = "meters"
    /\ task[m].pc = "loop"
    /\ task[m].pos = request.num_periods
    /\ task' = [task EXCEPT ![m] = [@ EXCEPT !.pc = "returned"]]
    /\ all_data' = all_data \o
          [k \in 1..Len(task[m].data) |->
              [TimeStamp |-> task[m].data[k].TimeStamp,
               Consumption |-> task[m].data[k].Consumption,
               Cluster |-> task[m].data[k].Cluster,
               MeterID |-> m]]
    /\ handled' = handled \cup {m}
    /\ UNCHANGED <<request, disk, patterns, mainpc, np_random, run>>

\* lines 164-167: the rows are written in the order they were generated
ClusterSave ==
    /\ request.prog = "cluster"
    /\ mainpc = "meters"
    /\ handled = Meters
    /\ disk' = [disk EXCEPT !.output = CsvFile(all_data)]
    /\ mainpc' = "done"
    /\ UNCHANGED <<request, patterns, task, handled, all_data, np_random, run>>

\* ------------------------------------------------------------ specification
MetersOf(req) ==
    IF req.prog = "slot" THEN 0..(req.num_meters - 1) ELSE 1..req.num_meters

InitRun(req, generator) ==
    /\ request = req
    /\ disk = [patterns_file |-> FileContent(req), output |-> NoFile, kept |-> NoFile]
    /\ patterns = Unloaded
    /\ mainpc = "load"
    /\ task = [i \in MetersOf(req) |-> IF req.prog = "slot" THEN NewTask ELSE NewMeter]
    /\ handled = {}
    /\ all_data = <<>>
    /\ np_random = generator
    /\ run = 1

\* The programs never seed np.random: the generator starts from the
\* system's entropy and any sequence of draws can come out.
Init ==
    \E req \in SlotRequests \cup ClusterRequests :
        InitRun(req, [seeded |-> FALSE, seed |-> 0, x |-> 0])

Next ==
    \/ Load
    \/ Submit
    \/ \E i \in Meters : Vary(i)
    \/ \E i \in Meters : Step(i)
    \/ \E i \in Meters : Return(i)
    \/ \E i \in Meters : Collect(i)
    \/ Merge
    \/ ClusterLoad
    \/ \E m \in Meters : ClusterAssign(m)
    \/ \E m \in Meters : ClusterStep(m)
    \/ \E m \in Meters : ClusterExtend(m)
    \/ ClusterSave

Spec == Init /\ [][Next]_vars

\* ------------------------------------------- two runs from the same seed
Seeds == 0..15

\* the requests whose pattern file is well formed
SeededRequests ==
    { req \in SlotRequests \cup ClusterRequests :
        req.file \in {"Steady", "SteadyOne", "Mixed", "Clustered"} }

\* The program is started with the generator seeded.
InitSeeded ==
    \E req \in SeededRequests, seed \in Seeds :
        InitRun(req, [seeded |-> TRUE, seed |-> seed, x |-> seed])

\* lines 197-226: the program has ended; its output file is set aside and
\* the program is started again with the same arguments and the same seed
Rerun ==
    /\ run = 1
    /\ mainpc \in {"done", "exit1"}
    /\ run' = 2
    /\ disk' = [disk EXCEPT !.kept = disk.output, !.output = NoFile]
    /\ patterns' = Unloaded
    /\ mainpc' = "load"
    /\ task' = [i \in Meters |-> IF request.prog = "slot" THEN NewTask ELSE NewMeter]
    /\ handled' = {}
    /\ all_data' = <<>>
    /\ np_random' = [np_random EXCEPT !.x = np_random.seed]
    /\ UNCHANGED request

NextSeeded == Next \/ Rerun

SpecSeeded == InitSeeded /\ [][NextSeeded]_vars

\* ------------------------------------------------------------------ claims
SlotProg == request.prog = "slot"

\* the rows a meter's generation holds
RowsOf(i) == IF SlotProg THEN task[i].synthetic_data ELSE task[i].data

\* the rows all_data holds
HeldRows == IF SlotProg THEN Concat(all_data) ELSE all_data

\* the number of time slots the request asks for
RequestedSlots == IF SlotProg THEN Len(date_range) ELSE request.num_periods

\* the entity a row of the merged dataset belongs to
EntityOf(row) == IF Has(row, "OBJECTID") THEN row.OBJECTID ELSE row.MeterID

\* the entity id of meter i
EntityId(i) == IF SlotProg THEN request.base_object_id + i ELSE i

AllNonNegative(rows) == \A k \in 1..Len(rows) : rows[k].Consumption >= 0

\* C1: every reading either generator emits has consumption >= 0, in the
\* rows of every meter, in all_data and in the output file.
C1_NonNegative ==
    /\ \A i \in Meters : AllNonNegative(RowsOf(i))
    /\ AllNonNegative(HeldRows)
    /\ AllNonNegative(disk.output.rows)

\* C1 witness: the output holds a reading that the sampler decided non-zero
\* and that the clamps brought to 0, beside a positive one.
C1_Witness ==
    /\ disk.output.exists
    /\ \E k \in 1..Len(disk.output.rows) : disk.output.rows[k].Consumption > 0
    /\ \E i \in Meters : \E k \in 1..Len(task[i].walk) :
          /\ IF SlotProg THEN task[i].walk[k].occupancy = "non_zero"
                         ELSE task[i].walk[k].state = 1
          /\ RowsOf(i)[k].Consumption = 0

\* C2: a meter whose generation completes returns exactly one reading per
\* requested time slot.
C2_ReadingCount ==
    \A i \in Meters :
        task[i].pc = "returned" => Len(RowsOf(i)) = RequestedSlots

\* C2 witness: a completed meter with two or more slots, one of them a
\* timestamp for which the sampler was not called (thread-pool generator) or
\* a period in state 0 (cluster generator).
C2_Witness ==
    \E i \in Meters :
        /\ task[i].pc = "returned"
        /\ RequestedSlots >= 2
        /\ \E k \in 1..Len(task[i].walk) :
              IF SlotProg THEN task[i].walk[k].calls = 0
                          ELSE task[i].walk[k].state = 0

\* rows in the order of (timestamp, entityId)
SortedByTimeThenEntity(rows) ==
    \A j, k \in 1..Len(rows) :
        j < k =>
            \/ rows[j].TimeStamp < rows[k].TimeStamp
            \/ /\ rows[j].TimeStamp = rows[k].TimeStamp
               /\ EntityOf(rows[j]) <= EntityOf(rows[k])

\* C3: the dataset either generator writes is sorted by (timestamp,
\* entityId), and sorting it again leaves it unchanged.
C3_MergedSorted ==
    disk.output.exists =>
        /\ SortedByTimeThenEntity(disk.output.rows)
        /\ SlotProg => SortValues(disk.output.rows) = disk.output.rows

\* The part of C3 that holds: the dataset of the thread-pool generator.
SlotOutputSorted ==
    (SlotProg /\ disk.output.exists) =>
        /\ SortedByTimeThenEntity(disk.output.rows)
        /\ SortValues(disk.output.rows) = disk.output.rows

\* C4: two runs with the same arguments and the same seed write the same
\* output (or both write none), whatever the interleaving of the tasks.
C4_SameSeedSameOutput ==
    (run = 2 /\ mainpc \in {"done", "exit1"}) => disk.output = disk.kept

\* the rows of entity id among rows, in their order
RowsOfEntity(rows, id) == SelectSeq(rows, LAMBDA r : EntityOf(r) = id)

\* the rows of meter i and the rows `rows` holds for it are the same readings
SameReadings(i, rows) ==
    LET mine == RowsOfEntity(rows, EntityId(i))
    IN  /\ Len(mine) = Len(RowsOf(i))
        /\ \A k \in 1..Len(mine) :
              /\ mine[k].TimeStamp = RowsOf(i)[k].TimeStamp
              /\ mine[k].Consumption = RowsOf(i)[k].Consumption

\* C5: a meter whose generation failed contributes no row to all_data or to
\* the output; every meter that succeeded contributes all its rows, one per
\* requested slot; and the output is written with every meter's task ended
\* (returned or raised), none cancelled.
C5_FailureIsolated ==
    /\ \A i \in handled :
          /\ task[i].pc = "raised" =>
                /\ RowsOfEntity(HeldRows, EntityId(i)) = <<>>
                /\ RowsOfEntity(disk.output.rows, EntityId(i)) = <<>>
          /\ task[i].pc = "returned" =>
                /\ Len(RowsOf(i)) = RequestedSlots
                /\ SameReadings(i, HeldRows)
                /\ disk.output.exists => SameReadings(i, disk.output.rows)
    /\ disk.output.exists =>
          \A i \in Meters : i \in handled /\ task[i].pc \in {"returned", "raised"}

\* C5 witness: the thread-pool generator has written its output after one
\* meter failed with rows already generated and another succeeded.
C5_Witness ==
    /\ SlotProg
    /\ disk.output.exists
    /\ \E i, j \in Meters :
          /\ task[i].pc = "raised"
          /\ task[i].synthetic_data # <<>>
          /\ task[j].pc = "returned"

\* every slot of the pattern file has zero_to_non_zero = 0.0, respectively
\* every cluster goes from state "0" to "1" with probability 0
NeverLeavesZero ==
    LET file == disk.patterns_file
    IN  IF SlotProg
        THEN \A k \in 1..Len(SlotKeys(file)) :
                LET slot == file[SlotKeys(file)[k][1]][SlotKeys(file)[k][2]]
                IN  /\ MissingKeys(slot) = {}
                    /\ Has(slot.transitions, "zero_to_non_zero")
                    /\ slot.transitions.zero_to_non_zero = 0
        ELSE /\ Has(file, "cluster_probabilities")
             /\ Has(file, "patterns")
             /\ \A c \in DOMAIN file.patterns :
                /\ Has(file.patterns[c], "transitions")
                /\ Has(file.patterns[c].transitions, "0")
                /\ file.patterns[c].transitions["0"]["1"] = 0

\* C6: with zero_to_non_zero = 0.0 everywhere, every reading of every meter
\* is 0, peak hours included.
C6_StaysZero ==
    NeverLeavesZero =>
        /\ \A i \in Meters : \A k \in 1..Len(RowsOf(i)) : RowsOf(i)[k].Consumption = 0
        /\ \A k \in 1..Len(disk.output.rows) : disk.output.rows[k].Consumption = 0

\* C6 witness: such a walk is complete and went through a peak hour in which
\* the sampler was called again.
C6_Witness ==
    /\ SlotProg
    /\ NeverLeavesZero
    /\ \E i \in Meters :
          /\ task[i].pc = "returned"
          /\ Len(task[i].walk) >= 2
          /\ \E k \in 1..Len(task[i].walk) : task[i].walk[k].calls = 2

\* the scenario of C7: every slot of the file has one component of mean 10.0
\* and variance 0, bounds 0..20, zero_to_non_zero = 1.0, non_zero_to_zero = 0.0
SteadyScenario ==
    /\ SlotProg
    /\ \A k \in 1..Len(SlotKeys(disk.patterns_file)) :
          LET slot == disk.patterns_file[SlotKeys(disk.patterns_file)[k][1]]
                                        [SlotKeys(disk.patterns_file)[k][2]]
          IN  /\ MissingKeys(slot) = {}
              /\ slot.transitions = [zero_to_non_zero |-> 100, non_zero_to_zero |-> 0]
              /\ slot.gmm_means = <<3000>>
              /\ slot.gmm_weights = <<100>>
              /\ slot.gmm_covariances = <<0>>
              /\ slot.basic_stats.min = 0
              /\ slot.basic_stats.max = 6000

\* the timestamp has a slot in the pattern file
HasSlot(ts) ==
    /\ Has(disk.patterns_file, DayName(ts))
    /\ Has(disk.patterns_file[DayName(ts)], StrfTime(ts))

C8_StoreUnchanged ==
    mainpc # "load" => patterns = disk.patterns_file

\* C8 witness: two tasks hold different perturbed copies and one of them
\* has generated a reading.
C8_Witness ==
    /\ SlotProg
    /\ \E i, j \in Meters :
          /\ task[i].pc = "loop"
          /\ task[j].pc = "loop"
          /\ task[i].meter_patterns # task[j].meter_patterns
          /\ task[i].pos >= 1

\* C9: with variation_factor = 0 the meter_patterns a task builds hold, for
\* every day of the shared patterns, exactly the shared day (its slot
\* objects and its daily_sequence), and the meter_patterns of any two tasks
\* are equal.  (The global_patterns entry is no day and is not copied.)
C9_NoVariationSameAsShared ==
    (SlotProg /\ request.variation_factor = 0) =>
        \A i \in Meters :
            task[i].meter_patterns # Unloaded =>
                /\ DOMAIN task[i].meter_patterns =
                      DOMAIN patterns \ {"global_patterns"}
                /\ \A d \in DOMAIN task[i].meter_patterns :
                      task[i].meter_patterns[d] = patterns[d]
                /\ \A j \in Meters :
                      task[j].meter_patterns # Unloaded =>
                          task[j].meter_patterns = task[i].meter_patterns

\* C9 witness: two tasks have built their meter_patterns with
\* variation_factor = 0 from a file with two components per slot.
C9_Witness ==
    /\ SlotProg
    /\ request.variation_factor = 0
    /\ request.file = "Mixed"
    /\ \E i, j \in Meters :
          /\ i # j
          /\ task[i].meter_patterns # Unloaded
          /\ task[j].meter_patterns # Unloaded

\* C10: mixture weights that do not sum to 1 never make np.random.choice
\* fail: no meter ends with its ValueError and no sample is abandoned on it.
C10_Renormalized ==
    \A i \in Meters :
        /\ task[i].cause # "ValueError"
        /\ ~SlotProg =>
              \A k \in 1..Len(task[i].walk) : task[i].walk[k].logged # "ValueError"

\* every slot of the pattern file, respectively every cluster, has its
\* mixture absent or empty, the file being well formed otherwise
MixtureAbsentOrEmpty ==
    LET file == disk.patterns_file
    IN  IF SlotProg
        THEN \A k \in 1..Len(SlotKeys(file)) :
                LET slot == file[SlotKeys(file)[k][1]][SlotKeys(file)[k][2]]
                IN  /\ MissingKeys(slot) \subseteq {1}
                    /\ Has(slot, "gmm_means") => slot.gmm_means = <<>>
        ELSE /\ Has(file, "cluster_probabilities")
             /\ Has(file, "patterns")
             /\ \A c \in DOMAIN file.patterns :
                   Has(file.patterns[c], "gmm") => file.patterns[c].gmm.means = <<>>

\* C11: where the mixture is absent or empty, no meter's generation fails
\* and every reading is 0, in both generators.
C11_EmptyMixtureYieldsZero ==
    MixtureAbsentOrEmpty =>
        \A i \in Meters :
            /\ task[i].pc # "raised"
            /\ \A k \in 1..Len(RowsOf(i)) : RowsOf(i)[k].Consumption = 0

\* The part of C11 that holds: in the cluster generator the sampler yields 0
\* for a state with no mixture or an empty one, and the walk goes on.
ClusterEmptyMixtureYieldsZero ==
    (~SlotProg /\ MixtureAbsentOrEmpty) =>
        \A i \in Meters :
            /\ task[i].pc # "raised"
            /\ \A k \in 1..Len(RowsOf(i)) : RowsOf(i)[k].Consumption = 0

\* the pattern file is well formed but for transitions that are not
\* defined: every slot lacks its transitions or the one of the state zero,
\* respectively some cluster has no transitions
TransitionsUndefined ==
    LET file == disk.patterns_file
    IN  IF SlotProg
        THEN \A k \in 1..Len(SlotKeys(file)) :
                LET slot == file[SlotKeys(file)[k][1]][SlotKeys(file)[k][2]]
                IN  /\ MissingKeys(slot) \subseteq {6}
                    /\ Has(slot, "transitions") =>
                          ~Has(slot.transitions, "zero_to_non_zero")
        ELSE /\ Has(file, "cluster_probabilities")
             /\ Has(file, "patterns")
             /\ DOMAIN file.cluster_probabilities \subseteq DOMAIN file.patterns
             /\ \E c \in DOMAIN file.patterns : ~Has(file.patterns[c], "transitions")

\* C12: where transitions are not defined, no meter's generation fails: the
\* walk goes on with the default distribution, in both generators.
C12_DefaultTransitions ==
    TransitionsUndefined => \A i \in Meters : task[i].pc # "raised"

\* The part of C12 that holds: in the cluster generator a cluster without
\* transitions, or without those of the current state, fails no meter.
ClusterDefaultTransitions ==
    (~SlotProg /\ TransitionsUndefined) => \A i \in Meters : task[i].pc # "raised"

\* the pattern file of the cluster generator lacks a required top-level key
TopLevelKeyAbsent ==
    /\ ~SlotProg
    /\ \/ ~Has(disk.patterns_file, "cluster_probabilities")
       \/ ~Has(disk.patterns_file, "patterns")

\* C13: with a required top-level key absent the run fails: it never ends
\* normally, no meter's generation completes and no output file is written.
C13_SchemaFatal ==
    TopLevelKeyAbsent =>
        /\ mainpc # "done"
        /\ ~disk.output.exists
        /\ \A m \in Meters : task[m].pc # "returned"

\* What the code does instead: every meter fails with the KeyError, one
\* after the other, and the run ends normally with an output file of no row.
SchemaErrorPerMeter ==
    (TopLevelKeyAbsent /\ mainpc = "done") =>
        /\ \A m \in Meters : task[m].pc = "raised" /\ task[m].cause = "KeyError"
        /\ disk.output = CsvFile(<<>>)

\* the timestamp of the n-th requested slot, counted from 0
SlotTime(n) ==
    IF SlotProg THEN request.start_date + n
    ELSE request.start_date + n * request.time_interval

\* the meters whose generation completed
Successful == {i \in Meters : task[i].pc = "returned"}

\* C14: the dataset written holds exactly one row per successful meter and
\* requested slot: its length is their product, no (entity, timestamp)
\* appears twice, every such pair is there, and no row is of another entity.
C14_OneRowPerEntitySlot ==
    disk.output.exists =>
        LET rows == disk.output.rows
        IN  /\ Len(rows) = Cardinality(Successful) * RequestedSlots
            /\ \A j, k \in 1..Len(rows) :
                  (EntityOf(rows[j]) = EntityOf(rows[k])
                     /\ rows[j].TimeStamp = rows[k].TimeStamp) => j = k
            /\ \A i \in Successful : \A n \in 0..(RequestedSlots - 1) :
                  \E k \in 1..Len(rows) :
                      /\ EntityOf(rows[k]) = EntityId(i)
                      /\ rows[k].TimeStamp = SlotTime(n)
            /\ \A k \in 1..Len(rows) :
                  \E i \in Successful : EntityOf(rows[k]) = EntityId(i)

\* C14 witness: the thread-pool generator has written the rows of two
\* meters over two slots, the second meter having completed first.
C14_Witness ==
    /\ SlotProg
    /\ disk.output.exists
    /\ RequestedSlots = 2
    /\ Cardinality(Successful) = 2
    /\ all_data[1][1].OBJECTID = request.base_object_id + 1

\* the slot objects of meter i's meter_patterns and of the shared patterns,
\* pairwise
SlotPairs(i) ==
    { [mine |-> task[i].meter_patterns[sk[1]][sk[2]], shared |-> patterns[sk[1]][sk[2]]] :
        sk \in {SlotKeys(patterns)[k] : k \in 1..Len(SlotKeys(patterns))} }

\* C15: in the meter_patterns a task has built, the weights, the variances
\* and the four fields of basic_stats of every slot are those of the shared
\* patterns.
C15_OnlyMeansAndCommonVary ==
    SlotProg =>
        \A i \in Meters :
            task[i].meter_patterns # Unloaded =>
                \A sp \in SlotPairs(i) :
                    /\ sp.mine.gmm_weights = sp.shared.gmm_weights
                    /\ sp.mine.gmm_covariances = sp.shared.gmm_covariances
                    /\ sp.mine.basic_stats = sp.shared.basic_stats

\* The part of C15 that holds: every field but the means, the common value
\* and basic_stats.mean is the shared one.
AllButThreeFieldsCopied ==
    SlotProg =>
        \A i \in Meters :
            task[i].meter_patterns # Unloaded =>
                \A sp \in SlotPairs(i) :
                    /\ sp.mine.gmm_weights = sp.shared.gmm_weights
                    /\ sp.mine.gmm_covariances = sp.shared.gmm_covariances
                    /\ sp.mine.percentiles = sp.shared.percentiles
                    /\ sp.mine.transitions = sp.shared.transitions
                    /\ sp.mine.zero_probability = sp.shared.zero_probability
                    /\ sp.mine.basic_stats.std = sp.shared.basic_stats.std
                    /\ sp.mine.basic_stats.min = sp.shared.basic_stats.min
                    /\ sp.mine.basic_stats.max = sp.shared.basic_stats.max

\* the passes of a walk of the thread-pool generator in which the sampler
\* chose an occupancy
Choosing(walk) == {k \in 1..Len(walk) : walk[k].occupancy # "none"}

\* the occupancy chosen last in a walk, zero before any choice
LastChosen(walk) ==
    IF Choosing(walk) = {} THEN "zero"
    ELSE walk[CHOOSE k \in Choosing(walk) : \A j \in Choosing(walk) : j <= k].occupancy

\* the state from which the next transition of meter i is drawn
CurrentlyZero(i) ==
    IF SlotProg THEN task[i].previous_value = 0 ELSE task[i].current_state = 0

\* the state the walk of meter i chose last, zero at the start
ChosenZero(i) ==
    IF SlotProg THEN LastChosen(task[i].walk) = "zero"
    ELSE task[i].walk = <<>> \/ task[i].walk[Len(task[i].walk)].state = 0

\* C16: the state from which the next transition is drawn is the occupancy
\* state chosen last, zero at the start, in both generators.
C16_StateIsLastChosen ==
    \A i \in Meters :
        task[i].pc \in {"loop", "returned"} => (CurrentlyZero(i) <=> ChosenZero(i))

\* The part of C16 that holds: the cluster generator carries the state it
\* drew to the next period.
ClusterStateCarried ==
    ~SlotProg =>
        \A i \in Meters :
            task[i].pc \in {"loop", "returned"} => (CurrentlyZero(i) <=> ChosenZero(i))

\* the reading meter i appended last
LastReading(i) == task[i].synthetic_data[Len(task[i].synthetic_data)]

\* C17: after every pass of the loop, previous_value is the consumption of
\* the reading just appended.
C17_PreviousIsLastReading ==
    SlotProg =>
        \A i \in Meters :
            (task[i].pc \in {"loop", "returned"} /\ task[i].synthetic_data # <<>>) =>
                task[i].previous_value = LastReading(i).Consumption

\* The part of C17 that holds: after a timestamp that has a slot in the
\* pattern, the reading is previous_value rounded to two decimals.
ReadingIsPreviousRounded ==
    SlotProg =>
        \A i \in Meters :
            (task[i].pc \in {"loop", "returned"} /\ task[i].synthetic_data # <<>>
               /\ HasSlot(LastReading(i).TimeStamp)) =>
                LastReading(i).Consumption = Round2(task[i].previous_value)

\* the hour of a timestamp is declared a peak hour, respectively a zero
\* period, by the day's daily_sequence
DeclaredHour(ts, kind) ==
    /\ Has(disk.patterns_file, DayName(ts))
    /\ Has(disk.patterns_file[DayName(ts)], "daily_sequence")
    /\ HourOf(ts) \in disk.patterns_file[DayName(ts)]["daily_sequence"][kind]

\* C18: a pass of the loop calls the sampler at most twice; it calls it
\* twice only in a peak hour, after a first sample of 0 and with the same
\* previous value both times; at a timestamp with a slot whose hour is
\* neither a peak hour nor a zero period it calls it exactly once.
C18_ResampleOnceAfterZero ==
    SlotProg =>
        \A i \in Meters : \A k \in 1..Len(task[i].walk) :
            LET w == task[i].walk[k]
                ts == task[i].synthetic_data[k].TimeStamp
            IN  /\ w.calls <= 2
                /\ w.calls = 2 =>
                      /\ DeclaredHour(ts, "peak_times")
                      /\ w.first_zero
                      /\ w.same_start
                /\ (HasSlot(ts) /\ ~DeclaredHour(ts, "peak_times")
                      /\ ~DeclaredHour(ts, "zero_periods")) => w.calls = 1

\* C18 witness: a walk went through a peak hour whose first sample was 0
\* and which was sampled again, from a non-zero previous value, to a
\* non-zero reading.
C18_Witness ==
    /\ SlotProg
    /\ \E i \in Meters :
          /\ Len(task[i].walk) >= 2
          /\ task[i].synthetic_data[1].Consumption > 0
          /\ task[i].walk[2].calls = 2
          /\ task[i].walk[2].first_zero
          /\ task[i].synthetic_data[2].Consumption > 0

\* C19: the readings a task produces do not depend on the interleaving of
\* the tasks: in a second run from the same seed with the same arguments,
\* every meter that completes holds the readings the first run wrote for it.
C19_ReadingsOwnedByTask ==
    (run = 2 /\ SlotProg /\ disk.kept.exists) =>
        \A i \in Meters :
            task[i].pc = "returned" => SameReadings(i, disk.kept.rows)

\* The part of C19 that holds: once the tasks are submitted, a step writes
\* the locals (previous_value, meter_patterns, synthetic_data) of at most
\* one task.
OnlyOwnLocalsWritten ==
    [][mainpc = "as_completed" =>
         \A i, j \in Meters : (i # j /\ task'[i] # task[i]) => task'[j] = task[j]]_vars

\* the entity ids of the rows
EntitiesOf(rows) == {EntityOf(rows[k]) : k \in 1..Len(rows)}

\* C20: the thread-pool generator ends with status 1 and no output file
\* exactly when every task failed; when it ends normally at least one task
\* succeeded and the file holds the rows of the successful meters, all of
\* them and no others; before the merge there is no output file.
C20_MergeNeedsOneSuccess ==
    SlotProg =>
        /\ mainpc = "exit1" =>
              /\ Successful = {}
              /\ handled = Meters
              /\ ~disk.output.exists
        /\ mainpc = "done" =>
              /\ Successful # {}
              /\ disk.output.exists
              /\ EntitiesOf(disk.output.rows) = {EntityId(i) : i \in Successful}
              /\ Len(disk.output.rows) = Cardinality(Successful) * RequestedSlots
        /\ mainpc \notin {"exit1", "done"} => ~disk.output.exists

\* C20 witness: the run of two meters ended with status 1, both tasks
\* having failed, one of them after it had generated a reading.
C20_Witness ==
    /\ SlotProg
    /\ mainpc = "exit1"
    /\ request.num_meters = 2
    /\ \A i \in Meters : task[i].pc = "raised"
    /\ \E i \in Meters : task[i].synthetic_data # <<>>

====
